---- MODULE Spec2Model ----
\* Chit-fund back office: enrollment counters, the customer balance ledger, the
\* passbook and the auctions.
\* The persisted rows are the state; every request handler is a sequence of
\* awaited persistence calls, one step per call, so that requests interleave
\* exactly at the awaits.
EXTENDS Integers, FiniteSets, Sequences, TLC

\* ---------------------------------------------------------------- bounds
NumSchemes  == 2   \* chit schemes that exist
MaxMembers  == 2   \* largest numberOfMembers of a scheme
MaxCust     == 3   \* customer ids ever allocated
MaxReq      == 2   \* requests in flight at once
MaxColl     == 2   \* collection ids ever allocated
MaxAmount   == 2   \* largest amountPerDay / amountPaid / balanceRemaining sent
MaxDuration == 1   \* largest duration sent
MaxOps      == 4   \* requests received in a run of overlapping enrollment requests
MaxEntry    == 2   \* passbook entry ids ever allocated
MaxMonth    == 2   \* largest month of a passbook entry
MaxAuction  == 2   \* auction ids ever allocated
MaxPatch    == 3   \* largest numberOfMembers / membersEnrolled sent in a scheme update
MaxDigit    == 2   \* largest digit in the page and limit of a list request
MaxDigits   == 1   \* most digits in the page and limit of a list request
MaxDay      == 1   \* latest day (from day 0) of a collection or of a report window
TicksPerDay == 2   \* instants told apart within a day

\* body('numberOfMembers').isInt({ min: 2 })
MinMembers == 2

SchemeIds == 1..NumSchemes
CustIds   == 1..MaxCust
CollIds   == 1..MaxColl
EntryIds  == 1..MaxEntry
AuctionIds == 1..MaxAuction
Months    == 1..MaxMonth

\* CREATE TYPE "CustomerStatus" / "AuctionStatus" / "EntryType"
CustomerStatus == {"ACTIVE", "COMPLETED", "DEFAULTED"}
AuctionStatus  == {"SCHEDULED", "COMPLETED", "CANCELLED"}
EntryType      == {"GENERATED", "MANUAL"}
Reqs      == 1..MaxReq

\* the time zones a process may run in: local time is UTC plus the offset
Offsets == (1 - TicksPerDay)..(TicksPerDay - 1)

VARIABLES
    numberOfMembers,   \* chit_schemes.numberOfMembers, by scheme id
    membersEnrolled,   \* chit_schemes.membersEnrolled, by scheme id
    customers,         \* customers rows: id -> [amountPerDay, duration, balance], and
                       \*   history: lastWrite, the collection whose recording wrote
                       \*   the balance last (0: none has)
    customerSchemes,   \* customer_schemes rows: how many there are of each
                       \*   <<customerId, schemeId>>
    collections,       \* collections rows: id -> [customerId, amountPaid, balanceRemaining],
                       \*   and history: applied, the balance write of the call that
                       \*   created the row has been made
    enrollmentStatus,  \* customer_schemes.status of the row of each pair (ACTIVE
                       \*   where there is none)
    passbookEntries,   \* passbook_entries rows: id -> [customerId, month, type]
    auctions,          \* auctions rows: id -> [chitSchemeId, winningMemberId, status];
                       \*   winningMemberId 0 is NULL
    nextId,            \* ids handed out so far: [cust, coll, entry, auction]
    req,               \* the handler invocations in flight, by slot
    resp,              \* the latest response sent: [op, status, msg] and the ids of
                       \*   its request
    pre,               \* history: the rows as they were when the request in hand arrived
    last,              \* history: the request answered latest:
                       \*          [resp, before], its response and the rows at its arrival
    older,             \* history: the request answered before that one, likewise
    started,           \* history: requests received, where a run is cut at MaxOps
    http               \* the server process: its connections, by slot (how far the
                       \*   request has been received, res.headersSent, the responses
                       \*   written), whether it is still up, and its time zone (local
                       \*   time less UTC, in instants)

vars == <<numberOfMembers, membersEnrolled, customers, customerSchemes,
          enrollmentStatus, collections, passbookEntries, auctions, nextId,
          req, resp, pre, last, older, started, http>>

db == <<numberOfMembers, membersEnrolled, customers, customerSchemes,
        enrollmentStatus, collections, passbookEntries, auctions, nextId, http>>

\* the tables that only customer deletion, the passbook routes and the auction
\* routes write, and the connections, which the route handlers are modelled
\* without
others == <<enrollmentStatus, passbookEntries, auctions, http>>

\* ---------------------------------------------------------------- helpers
EmptyMap == [x \in {} |-> 0]
NoRows   == [p \in CustIds \X SchemeIds |-> 0]
NoTodo   == [s \in SchemeIds |-> 0]

\* "status" "CustomerStatus" NOT NULL DEFAULT 'ACTIVE'
AllActive == [p \in CustIds \X SchemeIds |-> "ACTIVE"]

\* the fields of a request that only the passbook, auction, scheme, list and report
\* routes read (date: the date of a collection, an instant), and the data of the
\* response to a list or report request
NoPatch == [entry |-> 0, month |-> 0, type |-> "", auction |-> 0,
            hasWinner |-> FALSE, winner |-> 0, status |-> "",
            members |-> 0, hasEnrolled |-> FALSE, enrolled |-> 0,
            page |-> <<>>, limit |-> <<>>, items |-> <<>>, total |-> 0, pages |-> 0,
            date |-> 0, startDate |-> 0, endDate |-> 0, revenueData |-> <<>>]

Idle == [pc |-> "idle", op |-> "none", cust |-> 0, scheme |-> 0, coll |-> 0,
         amt |-> 0, dur |-> 0, bal |-> 0, hasAmt |-> FALSE, hasBal |-> FALSE,
         todo |-> NoTodo, more |-> NoPatch]

\* a request as it arrives: the route and the ids and numbers it carries
Request(op, c, s, k, amt, dur, bal, hasAmt, hasBal) ==
    [pc |-> "new", op |-> op, cust |-> c, scheme |-> s, coll |-> k,
     amt |-> amt, dur |-> dur, bal |-> bal, hasAmt |-> hasAmt, hasBal |-> hasBal,
     todo |-> NoTodo, more |-> NoPatch]

\* what the history keeps of the rows: the counters, the enrollments, the balance
\* of every customer, the amountPaid and the customer of every collection, the
\* passbook entries and the auctions there are
Snapshot == [enrolled |-> membersEnrolled, rows |-> customerSchemes,
             balance |-> [c \in DOMAIN customers |-> customers[c].balance],
             paid |-> [k \in DOMAIN collections |-> collections[k].amountPaid],
             payer |-> [k \in DOMAIN collections |-> collections[k].customerId],
             entries |-> passbookEntries,
             auctions |-> auctions,
             status |-> enrollmentStatus]

NoResp == [op |-> "none", status |-> 0, msg |-> "", cust |-> 0, scheme |-> 0, coll |-> 0,
           more |-> NoPatch]

AllIdle == \A r \in Reqs : req[r].pc = "idle"

\* the slot a newly arrived request takes
FreeSlot(r) == req[r].pc = "idle" /\ \A q \in Reqs : req[q].pc = "idle" => r <= q

CustomerExists(c) == c \in DOMAIN customers

\* the number of customer_schemes rows of a pair, of a scheme
RowsFor(c, s) == customerSchemes[<<c, s>>]

RECURSIVE SumOver(_, _)
SumOver(f, S) == IF S = {} THEN 0
                 ELSE LET x == CHOOSE y \in S : TRUE IN f[x] + SumOver(f, S \ {x})

RowsIn(s) == SumOver([c \in CustIds |-> RowsFor(c, s)], CustIds)

\* include: { schemes: ... }: the enrollments of a customer, counted by scheme
SchemesOf(c) == [s \in SchemeIds |-> RowsFor(c, s)]

\* the rows with one more of the pair / without those of a customer
AddRow(c, s)  == [customerSchemes EXCEPT ![<<c, s>>] = @ + 1]
DropRowsOf(c) == [p \in CustIds \X SchemeIds |-> IF p[1] = c THEN 0 ELSE customerSchemes[p]]

CollectionsOf(c) == {k \in DOMAIN collections : collections[k].customerId = c}

\* the passbook entries of a customer
PassbookOf(c) == {e \in DOMAIN passbookEntries : passbookEntries[e].customerId = c}

\* the auctions keep the winner they had
WinnerKept(c) == auctions

\* auctions_winningMemberId_fkey ON DELETE SET NULL
WithoutWinner(c) ==
    [a \in DOMAIN auctions |->
        IF auctions[a].winningMemberId = c
        THEN [auctions[a] EXCEPT !.winningMemberId = 0] ELSE auctions[a]]

\* the status of the rows once those of a customer are gone
StatusWithout(c) ==
    [p \in CustIds \X SchemeIds |-> IF p[1] = c THEN "ACTIVE" ELSE enrollmentStatus[p]]

\* a function with one key added or overwritten / one key removed
Put(f, k, v) == [x \in DOMAIN f \cup {k} |-> IF x = k THEN v ELSE f[x]]
Drop(f, ks)  == [x \in DOMAIN f \ ks |-> f[x]]

\* a response sent after an awaited call: the slot is released
Respond(r, status, msg) ==
    /\ req' = [req EXCEPT ![r] = Idle]
    /\ resp' = [op |-> req[r].op, status |-> status, msg |-> msg,
                cust |-> req[r].cust, scheme |-> req[r].scheme, coll |-> req[r].coll,
                more |-> req[r].more]

\* a response sent by the step that received the request q
Reject(q, status, msg) ==
    /\ req' = req
    /\ resp' = [op |-> q.op, status |-> status, msg |-> msg,
                cust |-> q.cust, scheme |-> q.scheme, coll |-> q.coll, more |-> q.more]

\* the request q goes on in slot r at the await named pc
Accept(r, q, pc) ==
    /\ req' = [req EXCEPT ![r] = [q EXCEPT !.pc = pc]]
    /\ resp' = resp

\* the handler in slot r moves on to its next await
Goto(r, pc) ==
    /\ req' = [req EXCEPT ![r].pc = pc]
    /\ resp' = resp

\* a slot without a connection, and the server with none
NoConn == [stage |-> "none", handler |-> "none", headersSent |-> FALSE,
           sent |-> 0, status |-> 0, late |-> FALSE]
NoTraffic == [conn |-> [r \in Reqs |-> NoConn], up |-> TRUE, tz |-> 0]

\* ---------------------------------------------------------------- initial state
\* The schemes have been created (membersEnrolled defaults to 0); nothing else exists.
Init ==
    /\ numberOfMembers \in [SchemeIds -> MinMembers..MaxMembers]
    /\ membersEnrolled = [s \in SchemeIds |-> 0]
    /\ customers = EmptyMap
    /\ customerSchemes = NoRows
    /\ enrollmentStatus = AllActive
    /\ collections = EmptyMap
    /\ passbookEntries = EmptyMap
    /\ auctions = EmptyMap
    /\ nextId = [cust |-> 0, coll |-> 0, entry |-> 0, auction |-> 0]
    /\ req = [r \in Reqs |-> Idle]
    /\ resp = NoResp
    /\ pre = Snapshot
    /\ last = [resp |-> NoResp, before |-> Snapshot]
    /\ older = [resp |-> NoResp, before |-> Snapshot]
    /\ started = 0
    /\ http = NoTraffic

\* The store after the many-to-many migration of a database that held one
\* customer in scheme 1: INSERT INTO "customer_schemes" ... SELECT ... "status" ...
\* FROM "customers" gives its enrollment the status the customer had.
InitMigrated ==
    /\ numberOfMembers \in [SchemeIds -> MinMembers..MaxMembers]
    /\ membersEnrolled = [s \in SchemeIds |-> IF s = 1 THEN 1 ELSE 0]
    /\ customers = Put(EmptyMap, 1, [amountPerDay |-> 1, duration |-> 1,
                                     balance |-> 1, lastWrite |-> 0])
    /\ customerSchemes = [NoRows EXCEPT ![<<1, 1>>] = 1]
    /\ \E st \in CustomerStatus : enrollmentStatus = [AllActive EXCEPT ![<<1, 1>>] = st]
    /\ collections = EmptyMap
    /\ passbookEntries = EmptyMap
    /\ auctions = EmptyMap
    /\ nextId = [cust |-> 1, coll |-> 0, entry |-> 0, auction |-> 0]
    /\ req = [r \in Reqs |-> Idle]
    /\ resp = NoResp
    /\ pre = Snapshot
    /\ last = [resp |-> NoResp, before |-> Snapshot]
    /\ older = [resp |-> NoResp, before |-> Snapshot]
    /\ started = 0
    /\ http = NoTraffic

\* The same store under a process that runs in any time zone.
InitAnywhere ==
    /\ numberOfMembers \in [SchemeIds -> MinMembers..MaxMembers]
    /\ membersEnrolled = [s \in SchemeIds |-> 0]
    /\ customers = EmptyMap
    /\ customerSchemes = NoRows
    /\ enrollmentStatus = AllActive
    /\ collections = EmptyMap
    /\ passbookEntries = EmptyMap
    /\ auctions = EmptyMap
    /\ nextId = [cust |-> 0, coll |-> 0, entry |-> 0, auction |-> 0]
    /\ req = [r \in Reqs |-> Idle]
    /\ resp = NoResp
    /\ pre = Snapshot
    /\ last = [resp |-> NoResp, before |-> Snapshot]
    /\ older = [resp |-> NoResp, before |-> Snapshot]
    /\ started = 0
    /\ \E tz \in Offsets : http = [NoTraffic EXCEPT !.tz = tz]

\* ---------------------------------------------------------------- enrollment
\* the capacity check with > for >=
SchemeFullOffByOne(s) == membersEnrolled[s] > numberOfMembers[s]

\* if (scheme.membersEnrolled >= scheme.numberOfMembers)
SchemeFull(s) == membersEnrolled[s] >= numberOfMembers[s]

\* the unique index customer_schemes_customerId_schemeId_key admits the row (c, s)
UniquePairOK(c, s) == RowsFor(c, s) = 0

\* the increment left out / the decrement made twice
IncrementForgotten(s) == membersEnrolled
DecrementTwice(s) == [membersEnrolled EXCEPT ![s] = @ - 2]

\* membersEnrolled: { increment: 1 } / { decrement: 1 }, one statement of the store
Increment(s) == [membersEnrolled EXCEPT ![s] = @ + 1]
Decrement(s) == [membersEnrolled EXCEPT ![s] = @ - 1]

\* const balance = amountPerDay * duration
InitialBalance(amountPerDay, duration) == amountPerDay * duration

\* customer ids still free for the creations that passed their capacity check
CustIdLeft ==
    nextId.cust + Cardinality({q \in Reqs : req[q].op = "CreateCustomer"}) < MaxCust

\* POST /customers: find the scheme, check its capacity
CreateCustomer_Start(r, s, amountPerDay, duration) ==
    LET q == Request("CreateCustomer", 0, s, 0, amountPerDay, duration, 0, FALSE, FALSE) IN
    /\ FreeSlot(r)
    /\ UNCHANGED db
    /\ IF s \notin SchemeIds THEN Reject(q, 400, "Chit scheme not found")
       ELSE IF SchemeFull(s) THEN Reject(q, 400, "Chit scheme is full")
       ELSE CustIdLeft /\ Accept(r, q, "create")

\* POST /customers: customer.create with the nested customer_schemes row
CreateCustomer_Create(r) ==
    LET q == req[r]
        c == nextId.cust + 1 IN
    /\ q.op = "CreateCustomer" /\ q.pc = "create"
    /\ customers' = Put(customers, c, [amountPerDay |-> q.amt, duration |-> q.dur,
                                       balance |-> InitialBalance(q.amt, q.dur),
                                       lastWrite |-> 0])
    /\ customerSchemes' = AddRow(c, q.scheme)
    /\ nextId' = [nextId EXCEPT !.cust = c]
    /\ req' = [req EXCEPT ![r].pc = "increment", ![r].cust = c]
    /\ UNCHANGED <<others, numberOfMembers, membersEnrolled, collections, resp>>

\* POST /customers: chitScheme.update increment, then 201
CreateCustomer_Increment(r) ==
    /\ req[r].op = "CreateCustomer" /\ req[r].pc = "increment"
    /\ membersEnrolled' = Increment(req[r].scheme)
    /\ Respond(r, 201, "Customer created successfully")
    /\ UNCHANGED <<others, numberOfMembers, customers, customerSchemes, collections, nextId>>

\* POST /chit-schemes/:id/members: find the scheme, check its capacity
EnrollMember_Start(r, c, s) ==
    LET q == Request("EnrollMember", c, s, 0, 0, 0, 0, FALSE, FALSE) IN
    /\ FreeSlot(r)
    /\ UNCHANGED db
    /\ IF s \notin SchemeIds THEN Reject(q, 404, "Chit scheme not found")
       ELSE IF SchemeFull(s) THEN Reject(q, 400, "Chit scheme is full")
       ELSE Accept(r, q, "findCustomer")

\* POST /chit-schemes/:id/members: customer.findUnique
EnrollMember_FindCustomer(r) ==
    /\ req[r].op = "EnrollMember" /\ req[r].pc = "findCustomer"
    /\ UNCHANGED db
    /\ IF ~CustomerExists(req[r].cust) THEN Respond(r, 404, "Customer not found")
       ELSE Goto(r, "findExisting")

\* POST /chit-schemes/:id/members: customerScheme.findFirst for the pair
EnrollMember_FindExisting(r) ==
    /\ req[r].op = "EnrollMember" /\ req[r].pc = "findExisting"
    /\ UNCHANGED db
    /\ IF RowsFor(req[r].cust, req[r].scheme) > 0
       THEN Respond(r, 400, "Customer is already enrolled in this scheme")
       ELSE Goto(r, "create")

\* POST /chit-schemes/:id/members: customerScheme.create; the store throws on a
\* missing customer (foreign key) or an existing pair (unique index), caught as 500
EnrollMember_Create(r) ==
    LET q == req[r] IN
    /\ q.op = "EnrollMember" /\ q.pc = "create"
    /\ UNCHANGED <<others, numberOfMembers, membersEnrolled, customers, collections, nextId>>
    /\ IF CustomerExists(q.cust) /\ UniquePairOK(q.cust, q.scheme)
       THEN /\ customerSchemes' = AddRow(q.cust, q.scheme)
            /\ Goto(r, "increment")
       ELSE /\ UNCHANGED customerSchemes
            /\ Respond(r, 500, "Failed to add customer to scheme")

\* POST /chit-schemes/:id/members: chitScheme.update increment, then 201
EnrollMember_Increment(r) ==
    /\ req[r].op = "EnrollMember" /\ req[r].pc = "increment"
    /\ membersEnrolled' = Increment(req[r].scheme)
    /\ Respond(r, 201, "Customer added to scheme successfully")
    /\ UNCHANGED <<others, numberOfMembers, customers, customerSchemes, collections, nextId>>

\* the passbook check passed whatever entries there are
HasPassbookEntriesNever(c) == FALSE

\* existingCustomer.schemes.some(cs => cs._count && cs._count.passbookEntries > 0):
\* the entries are counted through the enrollments of the customer
HasPassbookEntries(c) ==
    /\ \E s \in SchemeIds : RowsFor(c, s) > 0
    /\ PassbookOf(c) # {}

\* DELETE /customers/:id: find the customer with its enrollments and counts
DeleteCustomer_Start(r, c) ==
    LET q == Request("DeleteCustomer", c, 0, 0, 0, 0, 0, FALSE, FALSE) IN
    /\ FreeSlot(r)
    /\ UNCHANGED db
    /\ IF ~CustomerExists(c) THEN Reject(q, 404, "Customer not found")
       ELSE IF CollectionsOf(c) # {}
       THEN Reject(q, 400, "Cannot delete customer with existing collections")
       ELSE IF HasPassbookEntries(c)
       THEN Reject(q, 400, "Cannot delete customer with existing passbook entries")
       ELSE Accept(r, [q EXCEPT !.todo = SchemesOf(c)], "delete")

\* DELETE /customers/:id: customer.delete; its customer_schemes, collections and
\* passbook rows go with it (ON DELETE CASCADE) and the auctions it won lose their
\* winner (ON DELETE SET NULL); a customer already gone makes it throw
DeleteCustomer_Delete(r) ==
    LET q == req[r] IN
    /\ q.op = "DeleteCustomer" /\ q.pc = "delete"
    /\ UNCHANGED <<http, numberOfMembers, membersEnrolled, nextId>>
    /\ IF ~CustomerExists(q.cust)
       THEN /\ UNCHANGED <<others, customers, customerSchemes, collections>>
            /\ Respond(r, 500, "Failed to delete customer")
       ELSE /\ customers' = Drop(customers, {q.cust})
            /\ customerSchemes' = DropRowsOf(q.cust)
            /\ enrollmentStatus' = StatusWithout(q.cust)
            /\ collections' = Drop(collections, CollectionsOf(q.cust))
            /\ passbookEntries' = Drop(passbookEntries, PassbookOf(q.cust))
            /\ auctions' = WithoutWinner(q.cust)
            /\ IF q.todo = NoTodo THEN Respond(r, 200, "Customer deleted successfully")
               ELSE Goto(r, "decrement")

\* DELETE /customers/:id: one chitScheme.update decrement of the Promise.all, for
\* an enrollment read at the start; the response follows the last of them
DeleteCustomer_Decrement(r, s) ==
    LET q == req[r]
        todo == [q.todo EXCEPT ![s] = @ - 1] IN
    /\ q.op = "DeleteCustomer" /\ q.pc = "decrement" /\ q.todo[s] > 0
    /\ membersEnrolled' = Decrement(s)
    /\ UNCHANGED <<others, numberOfMembers, customers, customerSchemes, collections, nextId>>
    /\ IF todo = NoTodo
       THEN Respond(r, 200, "Customer deleted successfully")
       ELSE /\ req' = [req EXCEPT ![r].todo = todo]
            /\ UNCHANGED resp

\* an awaited persistence call rejects (the store is unreachable): the catch block
\* answers 500 and nothing the handler had still to write is written
StoreDown == "store unreachable"

Fail(r) ==
    /\ req[r].pc # "idle"
    /\ UNCHANGED db
    /\ Respond(r, 500, StoreDown)

\* ---------------------------------------------------------------- collections
\* the balance lowered by the payment instead of overwritten
BalanceLessPaid(balance, amountPaid, balanceRemaining) == balance - amountPaid

\* the balance left as it is
BalanceKept(balance, amountPaid, balanceRemaining) == balance

\* data: { balance: balanceRemaining }  (POST /collections, PUT /collections/:id)
BalanceAfterRecord(balance, amountPaid, balanceRemaining) == balanceRemaining

\* the balance written back as it was read
BalanceAsRead(balance, amountPaid) == balance

\* const newBalance = existingCollection.customer.balance + existingCollection.amountPaid
RestoredBalance(balance, amountPaid) == balance + amountPaid

\* collection ids still free for the recordings that found their customer
CollIdLeft ==
    nextId.coll + Cardinality({q \in Reqs : req[q].op = "RecordCollection"}) < MaxColl

\* POST /collections: customer.findUnique
RecordCollection_Start(r, c, amountPaid, balanceRemaining) ==
    LET q == Request("RecordCollection", c, 0, 0, amountPaid, 0, balanceRemaining,
                     TRUE, TRUE) IN
    /\ FreeSlot(r)
    /\ UNCHANGED db
    /\ IF ~CustomerExists(c) THEN Reject(q, 400, "Customer not found")
       ELSE CollIdLeft /\ Accept(r, q, "create")

\* POST /collections: collection.create; a customer gone meanwhile makes it throw
RecordCollection_Create(r) ==
    LET q == req[r]
        k == nextId.coll + 1 IN
    /\ q.op = "RecordCollection" /\ q.pc = "create"
    /\ UNCHANGED <<others, numberOfMembers, membersEnrolled, customers, customerSchemes>>
    /\ IF CustomerExists(q.cust)
       THEN /\ collections' = Put(collections, k,
                   [customerId |-> q.cust, amountPaid |-> q.amt,
                    balanceRemaining |-> q.bal, date |-> q.more.date,
                    applied |-> FALSE])
            /\ nextId' = [nextId EXCEPT !.coll = k]
            /\ req' = [req EXCEPT ![r].pc = "updateBalance", ![r].coll = k]
            /\ resp' = resp
       ELSE /\ UNCHANGED <<collections, nextId>>
            /\ Respond(r, 500, "Failed to record collection")

\* POST /collections: customer.update of the balance, then 201
RecordCollection_UpdateBalance(r) ==
    LET q == req[r] IN
    /\ q.op = "RecordCollection" /\ q.pc = "updateBalance"
    /\ UNCHANGED <<others, numberOfMembers, membersEnrolled, customerSchemes, nextId>>
    /\ IF CustomerExists(q.cust)
       THEN /\ customers' = [customers EXCEPT
                   ![q.cust].balance = BalanceAfterRecord(@, q.amt, q.bal),
                   ![q.cust].lastWrite = q.coll]
            /\ collections' = IF q.coll \in DOMAIN collections
                              THEN [collections EXCEPT ![q.coll].applied = TRUE]
                              ELSE collections
            /\ Respond(r, 201, "Collection recorded successfully")
       ELSE /\ UNCHANGED <<customers, collections>>
            /\ Respond(r, 500, "Failed to record collection")

\* the balance written whether the patch has a balanceRemaining or not
BalancePatchedAlways(q) == TRUE

\* if (updateData.balanceRemaining !== undefined)
BalancePatched(q) == q.hasBal

\* PUT /collections/:id: collection.findUnique with its customer
UpdateCollection_Start(r, k, hasAmt, amountPaid, hasBal, balanceRemaining) ==
    LET q == Request("UpdateCollection", 0, 0, k, amountPaid, 0, balanceRemaining,
                     hasAmt, hasBal) IN
    /\ FreeSlot(r)
    /\ UNCHANGED db
    /\ IF k \notin DOMAIN collections THEN Reject(q, 404, "Collection not found")
       ELSE Accept(r, [q EXCEPT !.cust = collections[k].customerId], "update")

\* PUT /collections/:id: collection.update with the patch; a row gone meanwhile
\* makes it throw
UpdateCollection_Update(r) ==
    LET q == req[r] IN
    /\ q.op = "UpdateCollection" /\ q.pc = "update"
    /\ UNCHANGED <<others, numberOfMembers, membersEnrolled, customers, customerSchemes, nextId>>
    /\ IF q.coll \in DOMAIN collections
       THEN /\ collections' = [collections EXCEPT
                   ![q.coll].amountPaid = IF q.hasAmt THEN q.amt ELSE @,
                   ![q.coll].balanceRemaining = IF q.hasBal THEN q.bal ELSE @]
            /\ IF BalancePatched(q) THEN Goto(r, "updateBalance")
               ELSE Respond(r, 200, "Collection updated successfully")
       ELSE /\ UNCHANGED collections
            /\ Respond(r, 500, "Failed to update collection")

\* PUT /collections/:id: if (updateData.balanceRemaining !== undefined) customer.update
UpdateCollection_UpdateBalance(r) ==
    LET q == req[r] IN
    /\ q.op = "UpdateCollection" /\ q.pc = "updateBalance"
    /\ UNCHANGED <<others, numberOfMembers, membersEnrolled, customerSchemes, collections, nextId>>
    /\ IF CustomerExists(q.cust)
       THEN /\ customers' = [customers EXCEPT
                   ![q.cust].balance = BalanceAfterRecord(@, q.amt, q.bal),
                   ![q.cust].lastWrite = 0]
            /\ Respond(r, 200, "Collection updated successfully")
       ELSE /\ UNCHANGED customers
            /\ Respond(r, 500, "Failed to update collection")

\* DELETE /collections/:id: collection.findUnique with its customer; the handler
\* keeps the amountPaid and the customer's balance it read
DeleteCollection_Start(r, k) ==
    LET q == Request("DeleteCollection", 0, 0, k, 0, 0, 0, FALSE, FALSE) IN
    /\ FreeSlot(r)
    /\ UNCHANGED db
    /\ IF k \notin DOMAIN collections THEN Reject(q, 404, "Collection not found")
       ELSE Accept(r, [q EXCEPT !.cust = collections[k].customerId,
                                !.amt = collections[k].amountPaid,
                                !.bal = customers[collections[k].customerId].balance],
                   "delete")

\* the deletion goes through whether the row is there or not
CollectionThereAlways(k) == TRUE

\* prisma.collection.delete({ where: { id } }) finds its row (it throws if not)
CollectionThere(k) == k \in DOMAIN collections

\* DELETE /collections/:id: collection.delete; a row gone meanwhile makes it throw
DeleteCollection_Delete(r) ==
    LET q == req[r] IN
    /\ q.op = "DeleteCollection" /\ q.pc = "delete"
    /\ UNCHANGED <<others, numberOfMembers, membersEnrolled, customers, customerSchemes, nextId>>
    /\ IF CollectionThere(q.coll)
       THEN /\ collections' = Drop(collections, {q.coll})
            /\ Goto(r, "restore")
       ELSE /\ UNCHANGED collections
            /\ Respond(r, 500, "Failed to delete collection")

\* DELETE /collections/:id: customer.update with the balance read at the start
\* plus the amountPaid, then 200
DeleteCollection_Restore(r) ==
    LET q == req[r] IN
    /\ q.op = "DeleteCollection" /\ q.pc = "restore"
    /\ UNCHANGED <<others, numberOfMembers, membersEnrolled, customerSchemes, collections, nextId>>
    /\ IF CustomerExists(q.cust)
       THEN /\ customers' = [customers EXCEPT
                   ![q.cust].balance = RestoredBalance(q.bal, q.amt),
                   ![q.cust].lastWrite = 0]
            /\ Respond(r, 200, "Collection deleted successfully")
       ELSE /\ UNCHANGED customers
            /\ Respond(r, 500, "Failed to delete collection")

\* ---------------------------------------------------------------- passbook
\* where: { customerId, month: parseInt(month), type: 'MANUAL' }
ManualEntries(c, m) ==
    {e \in PassbookOf(c) : passbookEntries[e].month = m /\ passbookEntries[e].type = "MANUAL"}

\* the type check passed whatever the type is
IsGeneratedNever(entry) == FALSE

\* if (existingEntry.type === 'GENERATED')
IsGenerated(entry) == entry.type = "GENERATED"

\* passbook entry ids still free for the creations that found their customer
EntryIdLeft ==
    nextId.entry + Cardinality({q \in Reqs : req[q].op = "CreatePassbookEntry"}) < MaxEntry

\* POST /passbook: customer.findUnique
CreatePassbookEntry_Start(r, c, month, type) ==
    LET q0 == Request("CreatePassbookEntry", c, 0, 0, 0, 0, 0, FALSE, FALSE)
        q == [q0 EXCEPT !.more.month = month, !.more.type = type] IN
    /\ FreeSlot(r)
    /\ UNCHANGED db
    /\ IF ~CustomerExists(c) THEN Reject(q, 400, "Customer not found")
       ELSE EntryIdLeft /\ Accept(r, q, "findExisting")

\* POST /passbook: passbookEntry.findFirst of a MANUAL entry of the customer and month
CreatePassbookEntry_FindExisting(r) ==
    LET q == req[r] IN
    /\ q.op = "CreatePassbookEntry" /\ q.pc = "findExisting"
    /\ UNCHANGED db
    /\ IF ManualEntries(q.cust, q.more.month) # {}
       THEN Respond(r, 400, "Manual entry already exists for this month")
       ELSE Goto(r, "create")

\* POST /passbook: passbookEntry.create, then 201; a customer gone meanwhile makes
\* it throw (foreign key)
CreatePassbookEntry_Create(r) ==
    LET q == req[r]
        e == nextId.entry + 1 IN
    /\ q.op = "CreatePassbookEntry" /\ q.pc = "create"
    /\ UNCHANGED <<http, numberOfMembers, membersEnrolled, customers, customerSchemes,
                   enrollmentStatus, collections, auctions>>
    /\ IF CustomerExists(q.cust)
       THEN /\ passbookEntries' = Put(passbookEntries, e,
                   [customerId |-> q.cust, month |-> q.more.month, type |-> q.more.type])
            /\ nextId' = [nextId EXCEPT !.entry = e]
            /\ req' = [req EXCEPT ![r] = Idle]
            /\ resp' = [op |-> q.op, status |-> 201,
                        msg |-> "Passbook entry created successfully",
                        cust |-> q.cust, scheme |-> q.scheme, coll |-> q.coll,
                        more |-> [q.more EXCEPT !.entry = e]]
       ELSE /\ UNCHANGED <<passbookEntries, nextId>>
            /\ Respond(r, 500, "Failed to create passbook entry")

\* PUT /passbook/:id: passbookEntry.findUnique and the type check; the body is the
\* patch (month 0, type "": not in the body)
UpdatePassbookEntry_Start(r, e, month, type) ==
    LET q0 == Request("UpdatePassbookEntry", 0, 0, 0, 0, 0, 0, FALSE, FALSE)
        q == [q0 EXCEPT !.more.entry = e, !.more.month = month, !.more.type = type] IN
    /\ FreeSlot(r)
    /\ UNCHANGED db
    /\ IF e \notin DOMAIN passbookEntries THEN Reject(q, 404, "Passbook entry not found")
       ELSE IF IsGenerated(passbookEntries[e])
       THEN Reject(q, 400, "Cannot update generated entries")
       ELSE Accept(r, q, "update")

\* PUT /passbook/:id: passbookEntry.update with data: updateData, then 200
UpdatePassbookEntry_Update(r) ==
    LET q == req[r]
        e == q.more.entry IN
    /\ q.op = "UpdatePassbookEntry" /\ q.pc = "update"
    /\ UNCHANGED <<http, numberOfMembers, membersEnrolled, customers, customerSchemes,
                   enrollmentStatus, collections, auctions, nextId>>
    /\ IF e \in DOMAIN passbookEntries
       THEN /\ passbookEntries' = [passbookEntries EXCEPT
                   ![e].month = IF q.more.month # 0 THEN q.more.month ELSE @,
                   ![e].type = IF q.more.type # "" THEN q.more.type ELSE @]
            /\ Respond(r, 200, "Passbook entry updated successfully")
       ELSE /\ UNCHANGED passbookEntries
            /\ Respond(r, 500, "Failed to update passbook entry")

\* DELETE /passbook/:id: passbookEntry.findUnique and the type check
DeletePassbookEntry_Start(r, e) ==
    LET q0 == Request("DeletePassbookEntry", 0, 0, 0, 0, 0, 0, FALSE, FALSE)
        q == [q0 EXCEPT !.more.entry = e] IN
    /\ FreeSlot(r)
    /\ UNCHANGED db
    /\ IF e \notin DOMAIN passbookEntries THEN Reject(q, 404, "Passbook entry not found")
       ELSE IF IsGenerated(passbookEntries[e])
       THEN Reject(q, 400, "Cannot delete generated entries")
       ELSE Accept(r, q, "delete")

\* DELETE /passbook/:id: passbookEntry.delete, then 200
DeletePassbookEntry_Delete(r) ==
    LET q == req[r]
        e == q.more.entry IN
    /\ q.op = "DeletePassbookEntry" /\ q.pc = "delete"
    /\ UNCHANGED <<http, numberOfMembers, membersEnrolled, customers, customerSchemes,
                   enrollmentStatus, collections, auctions, nextId>>
    /\ IF e \in DOMAIN passbookEntries
       THEN /\ passbookEntries' = Drop(passbookEntries, {e})
            /\ Respond(r, 200, "Passbook entry deleted successfully")
       ELSE /\ UNCHANGED passbookEntries
            /\ Respond(r, 500, "Failed to delete passbook entry")

\* ---------------------------------------------------------------- auctions
\* scheme ids a request may name: those that exist and one that does not
SchemeRefs == 1..(NumSchemes + 1)

\* what a body may carry as winningMemberId: a customer id, or 0 for the empty
\* string; hasWinner tells whether the body has the field at all
WinnerRefs == {0} \cup CustIds

\* if (winningMemberId): undefined and '' are falsy
Truthy(hasWinner, winner) == hasWinner /\ winner # 0

\* auctions_winningMemberId_fkey admits the value written: no value (NULL) or the
\* id of a customer; the empty string is the id of none
WinnerKeyOK(hasWinner, winner) == ~hasWinner \/ CustomerExists(winner)

\* the status check passed whatever the status is
IsCompletedNever(auction) == FALSE

\* if (existingAuction.status === 'COMPLETED')
IsCompleted(auction) == auction.status = "COMPLETED"

\* prisma.customerScheme.findFirst({ where: { customerId: winningMemberId, schemeId } })
IsMember(c, s) == RowsFor(c, s) > 0

\* auction ids still free for the recordings that found their scheme
AuctionIdLeft ==
    nextId.auction + Cardinality({q \in Reqs : req[q].op = "RecordAuction"}) < MaxAuction

\* POST /auctions: chitScheme.findUnique, then if (winningMemberId)
RecordAuction_Start(r, s, hasWinner, winner, status) ==
    LET q0 == Request("RecordAuction", 0, s, 0, 0, 0, 0, FALSE, FALSE)
        q == [q0 EXCEPT !.more.hasWinner = hasWinner, !.more.winner = winner,
                        !.more.status = status] IN
    /\ FreeSlot(r)
    /\ UNCHANGED db
    /\ IF s \notin SchemeIds THEN Reject(q, 400, "Chit scheme not found")
       ELSE /\ AuctionIdLeft
            /\ IF Truthy(hasWinner, winner) THEN Accept(r, q, "findWinner")
               ELSE Accept(r, q, "create")

\* POST /auctions and PUT /auctions/:id: customer.findUnique of the winning member
Auction_FindWinner(r) ==
    LET q == req[r] IN
    /\ q.op \in {"RecordAuction", "UpdateAuction"} /\ q.pc = "findWinner"
    /\ UNCHANGED db
    /\ IF ~CustomerExists(q.more.winner) THEN Respond(r, 400, "Winning member not found")
       ELSE Goto(r, "findMembership")

\* POST /auctions and PUT /auctions/:id: customerScheme.findFirst of the winning
\* member in the scheme of the auction
Auction_FindMembership(r) ==
    LET q == req[r] IN
    /\ q.op \in {"RecordAuction", "UpdateAuction"} /\ q.pc = "findMembership"
    /\ UNCHANGED db
    /\ IF ~IsMember(q.more.winner, q.scheme)
       THEN Respond(r, 400, "Winning member does not belong to this chit scheme")
       ELSE Goto(r, IF q.op = "RecordAuction" THEN "create" ELSE "update")

\* POST /auctions: auction.create, then 201; a winningMemberId that is no
\* customer's id makes it throw (foreign key)
RecordAuction_Create(r) ==
    LET q == req[r]
        a == nextId.auction + 1 IN
    /\ q.op = "RecordAuction" /\ q.pc = "create"
    /\ UNCHANGED <<http, numberOfMembers, membersEnrolled, customers, customerSchemes,
                   enrollmentStatus, collections, passbookEntries>>
    /\ IF WinnerKeyOK(q.more.hasWinner, q.more.winner)
       THEN /\ auctions' = Put(auctions, a,
                   [chitSchemeId |-> q.scheme,
                    winningMemberId |-> IF q.more.hasWinner THEN q.more.winner ELSE 0,
                    status |-> q.more.status])
            /\ nextId' = [nextId EXCEPT !.auction = a]
            /\ req' = [req EXCEPT ![r] = Idle]
            /\ resp' = [op |-> q.op, status |-> 201,
                        msg |-> "Auction scheduled successfully",
                        cust |-> q.cust, scheme |-> q.scheme, coll |-> q.coll,
                        more |-> [q.more EXCEPT !.auction = a]]
       ELSE /\ UNCHANGED <<auctions, nextId>>
            /\ Respond(r, 500, "Failed to schedule auction")

\* PUT /auctions/:id: auction.findUnique, then if (updateData.winningMemberId);
\* status "" stands for a body without status
UpdateAuction_Start(r, a, hasWinner, winner, status) ==
    LET q0 == Request("UpdateAuction", 0, 0, 0, 0, 0, 0, FALSE, FALSE)
        q1 == [q0 EXCEPT !.more.auction = a, !.more.hasWinner = hasWinner,
                         !.more.winner = winner, !.more.status = status] IN
    /\ FreeSlot(r)
    /\ UNCHANGED db
    /\ IF a \notin DOMAIN auctions THEN Reject(q1, 404, "Auction not found")
       ELSE LET q == [q1 EXCEPT !.scheme = auctions[a].chitSchemeId] IN
            IF Truthy(hasWinner, winner) THEN Accept(r, q, "findWinner")
            ELSE Accept(r, q, "update")

\* PUT /auctions/:id: auction.update with the body less chitSchemeId, then 200
UpdateAuction_Update(r) ==
    LET q == req[r]
        a == q.more.auction IN
    /\ q.op = "UpdateAuction" /\ q.pc = "update"
    /\ UNCHANGED <<http, numberOfMembers, membersEnrolled, customers, customerSchemes,
                   enrollmentStatus, collections, passbookEntries, nextId>>
    /\ IF a \in DOMAIN auctions /\ WinnerKeyOK(q.more.hasWinner, q.more.winner)
       THEN /\ auctions' = [auctions EXCEPT
                   ![a].winningMemberId = IF q.more.hasWinner THEN q.more.winner ELSE @,
                   ![a].status = IF q.more.status # "" THEN q.more.status ELSE @]
            /\ Respond(r, 200, "Auction updated successfully")
       ELSE /\ UNCHANGED auctions
            /\ Respond(r, 500, "Failed to update auction")

\* DELETE /auctions/:id: auction.findUnique and the status check
DeleteAuction_Start(r, a) ==
    LET q0 == Request("DeleteAuction", 0, 0, 0, 0, 0, 0, FALSE, FALSE)
        q == [q0 EXCEPT !.more.auction = a] IN
    /\ FreeSlot(r)
    /\ UNCHANGED db
    /\ IF a \notin DOMAIN auctions THEN Reject(q, 404, "Auction not found")
       ELSE IF IsCompleted(auctions[a])
       THEN Reject(q, 400, "Cannot delete completed auction")
       ELSE Accept(r, q, "delete")

\* DELETE /auctions/:id: auction.delete, then 200
DeleteAuction_Delete(r) ==
    LET q == req[r]
        a == q.more.auction IN
    /\ q.op = "DeleteAuction" /\ q.pc = "delete"
    /\ UNCHANGED <<http, numberOfMembers, membersEnrolled, customers, customerSchemes,
                   enrollmentStatus, collections, passbookEntries, nextId>>
    /\ IF a \in DOMAIN auctions
       THEN /\ auctions' = Drop(auctions, {a})
            /\ Respond(r, 200, "Auction deleted successfully")
       ELSE /\ UNCHANGED auctions
            /\ Respond(r, 500, "Failed to delete auction")

\* ---------------------------------------------------------------- scheme update
\* body('numberOfMembers').optional().isInt({ min: 2 }): 0 stands for a body
\* without numberOfMembers
MembersPatch == {0} \cup MinMembers..MaxPatch

\* no rule of chitSchemeValidations.update names membersEnrolled, and the body goes
\* to the store whole: what a body may carry as membersEnrolled
EnrolledPatch == 0..MaxPatch

\* PUT /chit-schemes/:id: chitScheme.findUnique
UpdateScheme_Start(r, s, members, hasEnrolled, enrolled) ==
    LET q0 == Request("UpdateScheme", 0, s, 0, 0, 0, 0, FALSE, FALSE)
        q == [q0 EXCEPT !.more.members = members, !.more.hasEnrolled = hasEnrolled,
                        !.more.enrolled = enrolled] IN
    /\ FreeSlot(r)
    /\ UNCHANGED db
    /\ IF s \notin SchemeIds THEN Reject(q, 404, "Chit scheme not found")
       ELSE Accept(r, q, "update")

\* PUT /chit-schemes/:id: chitScheme.update with data: updateData, then 200
UpdateScheme_Update(r) ==
    LET q == req[r]
        s == q.scheme IN
    /\ q.op = "UpdateScheme" /\ q.pc = "update"
    /\ numberOfMembers' = [numberOfMembers EXCEPT
           ![s] = IF q.more.members # 0 THEN q.more.members ELSE @]
    /\ membersEnrolled' = [membersEnrolled EXCEPT
           ![s] = IF q.more.hasEnrolled THEN q.more.enrolled ELSE @]
    /\ Respond(r, 200, "Chit scheme updated successfully")
    /\ UNCHANGED <<others, customers, customerSchemes, collections, nextId>>

\* ---------------------------------------------------------------- customer update
\* what the body of a customer update may carry as amountPerDay and duration
\* (isInt({ min: 1 })); 0 stands for a body without the field
AmountPatch   == 0..MaxAmount
DurationPatch == 0..(MaxDuration + 1)

\* if (updateData.amountPerDay || updateData.duration)
Recalculates(q) == q.amt # 0 \/ q.dur # 0

\* const amountPerDay = updateData.amountPerDay || existingCustomer.amountPerDay
\* const duration = updateData.duration || existingCustomer.duration
\* const totalAmount = amountPerDay * duration
\* const paidAmount = totalAmount - existingCustomer.balance
\* updateData.balance = totalAmount - paidAmount
RecalculatedBalance(existingCustomer, q) ==
    LET amountPerDay == IF q.amt # 0 THEN q.amt ELSE existingCustomer.amountPerDay
        duration == IF q.dur # 0 THEN q.dur ELSE existingCustomer.duration
        totalAmount == amountPerDay * duration
        paidAmount == totalAmount - existingCustomer.balance IN
    totalAmount - paidAmount

\* PUT /customers/:id: customer.findUnique, then the balance of the patch; hasBal
\* and bal are the balance the body itself carries
UpdateCustomer_Start(r, c, amountPerDay, duration, hasBal, balance) ==
    LET q == Request("UpdateCustomer", c, 0, 0, amountPerDay, duration, balance,
                     amountPerDay # 0, hasBal) IN
    /\ FreeSlot(r)
    /\ UNCHANGED db
    /\ IF ~CustomerExists(c) THEN Reject(q, 404, "Customer not found")
       ELSE IF Recalculates(q)
       THEN Accept(r, [q EXCEPT !.hasBal = TRUE,
                                !.bal = RecalculatedBalance(customers[c], q)], "update")
       ELSE Accept(r, q, "update")

\* PUT /customers/:id: customer.update with the patch, then 200; a customer gone
\* meanwhile makes it throw
UpdateCustomer_Update(r) ==
    LET q == req[r] IN
    /\ q.op = "UpdateCustomer" /\ q.pc = "update"
    /\ UNCHANGED <<others, numberOfMembers, membersEnrolled, customerSchemes, collections, nextId>>
    /\ IF CustomerExists(q.cust)
       THEN /\ customers' = [customers EXCEPT
                   ![q.cust].amountPerDay = IF q.amt # 0 THEN q.amt ELSE @,
                   ![q.cust].duration = IF q.dur # 0 THEN q.dur ELSE @,
                   ![q.cust].balance = IF q.hasBal THEN q.bal ELSE @,
                   ![q.cust].lastWrite = IF q.hasBal THEN 0 ELSE @]
            /\ Respond(r, 200, "Customer updated successfully")
       ELSE /\ UNCHANGED customers
            /\ Respond(r, 500, "Failed to update customer")

\* ---------------------------------------------------------------- customer list
\* what a query may carry as page or limit: a string of digits, or nothing (<<>>)
Digits == 0..MaxDigit
QueryStrings == UNION {[1..n -> Digits] : n \in 0..MaxDigits}

\* parseInt of a string of digits
RECURSIVE ParseInt(_)
ParseInt(str) ==
    IF str = <<>> THEN 0
    ELSE 10 * ParseInt(SubSeq(str, 1, Len(str) - 1)) + str[Len(str)]

\* const { page = 1, limit = 10 } = req.query, then parseInt
PageOf(str)  == IF str = <<>> THEN 1 ELSE ParseInt(str)
LimitOf(str) == IF str = <<>> THEN 10 ELSE ParseInt(str)

\* the rows skipped taken to be page * limit
SkipFromPage(page, limit) == page * limit

\* const skip = (parseInt(page) - 1) * parseInt(limit)
Skip(page, limit) == (page - 1) * limit

\* orderBy: { createdAt: 'desc' }: the ids of the customers, the newest first
RECURSIVE NewestFirst(_)
NewestFirst(S) ==
    IF S = {} THEN <<>>
    ELSE LET m == CHOOSE x \in S : \A y \in S : y <= x IN <<m>> \o NewestFirst(S \ {m})

\* findMany({ skip, take }): the rows after the first skip, take of them at most
FindMany(rows, skip, take) ==
    LET to == IF skip + take < Len(rows) THEN skip + take ELSE Len(rows) IN
    IF skip + 1 > to THEN <<>> ELSE SubSeq(rows, skip + 1, to)

\* Math.ceil(totalCount / parseInt(limit)); -1 stands for what is no number
\* (a division by 0), which the response carries as null
Pages(total, limit) ==
    IF limit = 0 THEN -1
    ELSE IF total % limit = 0 THEN total \div limit ELSE total \div limit + 1

\* GET /customers: customer.count({ where })
ListCustomers_Start(r, page, limit) ==
    LET q0 == Request("ListCustomers", 0, 0, 0, 0, 0, 0, FALSE, FALSE)
        q == [q0 EXCEPT !.more.page = page, !.more.limit = limit,
                        !.more.total = Cardinality(DOMAIN customers)] IN
    /\ FreeSlot(r)
    /\ UNCHANGED db
    /\ Accept(r, q, "findMany")

\* GET /customers: customer.findMany({ skip, take, orderBy }), then the response
\* with the pagination; a negative skip makes findMany throw
ListCustomers_FindMany(r) ==
    LET q == req[r]
        page == PageOf(q.more.page)
        limit == LimitOf(q.more.limit)
        skip == Skip(page, limit) IN
    /\ q.op = "ListCustomers" /\ q.pc = "findMany"
    /\ UNCHANGED db
    /\ req' = [req EXCEPT ![r] = Idle]
    /\ resp' = IF skip < 0
               THEN [op |-> q.op, status |-> 500, msg |-> "Failed to fetch customers",
                     cust |-> 0, scheme |-> 0, coll |-> 0, more |-> q.more]
               ELSE [op |-> q.op, status |-> 200, msg |-> "",
                     cust |-> 0, scheme |-> 0, coll |-> 0,
                     more |-> [q.more EXCEPT
                         !.items = FindMany(NewestFirst(DOMAIN customers), skip, limit),
                         !.pages = Pages(q.more.total, limit)]]

\* ---------------------------------------------------------------- revenue report
\* days, counted from day 0, and the instants of these days in UTC
Days  == 0..MaxDay
Ticks == 0..(TicksPerDay * (MaxDay + 1) - 1)

\* new Date('YYYY-MM-DD'): the start of the day in UTC
DateOf(day) == day * TicksPerDay

\* date.toISOString().split('T')[0]: the day in UTC
DayKey(date) == date \div TicksPerDay

\* end.setHours(23, 59, 59, 999): the last instant of the day that the date falls
\* on in local time
EndOfDay(date, tz) == (((date + tz) \div TicksPerDay) + 1) * TicksPerDay - 1 - tz

\* where: { date: { gte: start, lte: end } }
InWindow(start, end) ==
    {k \in DOMAIN collections : start <= collections[k].date /\ collections[k].date <= end}

\* collections.forEach: the bucket of the key of each collection takes its
\* amountPaid and counts it
RECURSIVE Grouped(_)
Grouped(ks) ==
    IF ks = {} THEN <<>>
    ELSE LET k == CHOOSE x \in ks : TRUE
             rest == Grouped(ks \ {k})
             key == DayKey(collections[k].date)
             old == IF key \in DOMAIN rest THEN rest[key]
                    ELSE [totalRevenue |-> 0, totalCollections |-> 0] IN
         Put(rest, key, [totalRevenue |-> old.totalRevenue + collections[k].amountPaid,
                         totalCollections |-> old.totalCollections + 1])

\* POST /collections with a date: customer.findUnique
RecordCollectionAt_Start(r, c, amountPaid, balanceRemaining, date) ==
    LET q0 == Request("RecordCollection", c, 0, 0, amountPaid, 0, balanceRemaining,
                      TRUE, TRUE)
        q == [q0 EXCEPT !.more.date = date] IN
    /\ FreeSlot(r)
    /\ UNCHANGED db
    /\ IF ~CustomerExists(c) THEN Reject(q, 400, "Customer not found")
       ELSE CollIdLeft /\ Accept(r, q, "create")

\* GET /reports/revenue?startDate&endDate (groupBy day): collection.findMany of
\* the window, the grouping, and the response
RevenueReport(r, startDate, endDate) ==
    LET q0 == Request("RevenueReport", 0, 0, 0, 0, 0, 0, FALSE, FALSE)
        start == DateOf(startDate)
        end == EndOfDay(DateOf(endDate), http.tz)
        q == [q0 EXCEPT !.more.startDate = startDate, !.more.endDate = endDate,
                        !.more.revenueData = Grouped(InWindow(start, end))] IN
    /\ FreeSlot(r)
    /\ UNCHANGED db
    /\ Reject(q, 200, "")

\* ---------------------------------------------------------------- request timeout
\* the statuses a route handler answers with
HandlerStatus == {200, 201, 400, 404, 500}

\* the response written although one has been written before
SendUnguarded(conn, status) ==
    [conn EXCEPT !.headersSent = TRUE, !.sent = @ + 1, !.status = status]

\* res.status(status).json(body): json sets the headers of the response, which
\* throws once the headers have been sent, before anything is written
Send(conn, status) ==
    IF conn.headersSent THEN conn
    ELSE [conn EXCEPT !.headersSent = TRUE, !.sent = @ + 1, !.status = status]

\* everything but the connections
store == <<numberOfMembers, membersEnrolled, customers, customerSchemes,
           enrollmentStatus, collections, passbookEntries, auctions, nextId,
           req, resp, pre, last, older, started>>

\* A request arrives, whole or with its body still to come: the timeout
\* middleware registers its two callbacks and calls next(); the rate limiter
\* answers 429 or passes the request on to the body parser and the routes.
Timeout_Arrive(r, complete, limited) ==
    LET c == [NoConn EXCEPT !.stage = IF complete THEN "received" ELSE "receiving",
                            !.handler = IF limited THEN "none"
                                        ELSE IF complete THEN "running" ELSE "waiting"] IN
    /\ http.up /\ http.conn[r].stage = "none"
    /\ http' = [http EXCEPT !.conn[r] = IF limited THEN Send(c, 429) ELSE c]
    /\ UNCHANGED store

\* express.json has read the body: the route handler starts
Timeout_BodyReceived(r) ==
    LET c == http.conn[r] IN
    /\ http.up /\ c.stage = "receiving"
    /\ http' = [http EXCEPT !.conn[r].stage = "received",
                            !.conn[r].handler = IF c.handler = "waiting" THEN "running" ELSE @]
    /\ UNCHANGED store

\* The route handler comes to its res.status(...).json(...). After a response
\* has been sent the call throws, the call of the catch block throws as well,
\* and the rejection of the async handler is handled nowhere: the process goes
\* on or exits, as the runtime decides.
Timeout_HandlerResponds(r, status, exits) ==
    LET c == http.conn[r] IN
    /\ http.up /\ c.handler = "running"
    /\ ~c.headersSent => ~exits
    /\ http' = [conn |-> [http.conn EXCEPT ![r] = [Send(c, status) EXCEPT
                                                      !.handler = "done",
                                                      !.late = c.headersSent]],
                up |-> ~exits, tz |-> http.tz]
    /\ UNCHANGED store

\* The socket has been idle for 30 seconds. The request's callback runs if the
\* request has not been received whole, and sends 408 whatever has been sent:
\* after a response the call throws in the timer, and the process exits. The
\* response's callback runs next: if (!res.headersSent) it sends 408.
Timeout_SocketIdle(r) ==
    LET c  == http.conn[r]
        c1 == IF c.stage = "receiving" THEN Send(c, 408) ELSE c
        c2 == IF ~c1.headersSent THEN Send(c1, 408) ELSE c1 IN
    /\ http.up /\ c.stage \in {"receiving", "received"}
    /\ c.stage = "receiving" \/ ~c.headersSent
    /\ http' = [conn |-> [http.conn EXCEPT ![r] = c2],
                up |-> ~(c.stage = "receiving" /\ c.headersSent), tz |-> http.tz]
    /\ UNCHANGED store

\* the exchange is over: the request has been received, a response sent and the
\* handler, if one ran, has returned
Timeout_Done(r) ==
    LET c == http.conn[r] IN
    /\ http.up /\ c.stage = "received" /\ c.headersSent /\ c.handler \in {"none", "done"}
    /\ http' = [http EXCEPT !.conn[r] = NoConn]
    /\ UNCHANGED store

\* ---------------------------------------------------------------- specifications
\* the amounts a request may carry
Amounts == 0..MaxAmount

\* no history is kept of a run in which requests overlap
Quiet == UNCHANGED <<pre, last, older, started>>

\* a request received in a run of at most MaxOps requests
Counted == started < MaxOps /\ started' = started + 1 /\ UNCHANGED <<pre, last, older>>

\* History of a run in which the requests come one at a time: pre is the rows at
\* the arrival of the request in hand; when its response is sent, last takes the
\* response with the rows before it.
History ==
    /\ pre' = IF AllIdle THEN Snapshot ELSE pre
    /\ last' = IF AllIdle' THEN [resp |-> resp', before |-> pre'] ELSE last
    /\ UNCHANGED <<older, started>>

\* History of a run in which requests overlap: pre is the rows at the arrival of
\* the first of the requests that overlap.
Before ==
    /\ pre' = IF AllIdle THEN Snapshot ELSE pre
    /\ UNCHANGED <<last, older, started>>

\* The same, and older takes what last was.
History2 ==
    /\ pre' = IF AllIdle THEN Snapshot ELSE pre
    /\ last' = IF AllIdle' THEN [resp |-> resp', before |-> pre'] ELSE last
    /\ older' = IF AllIdle' THEN last ELSE older
    /\ started' = started

\* Enrollment routes; requests arrive at any time and interleave at their awaits,
\* and an awaited call may fail.
NextEnroll ==
    \E r \in Reqs :
        \/ \E s \in SchemeIds : CreateCustomer_Start(r, s, 1, 1) /\ Counted
        \/ \E c \in CustIds, s \in SchemeIds : EnrollMember_Start(r, c, s) /\ Counted
        \/ \E c \in CustIds : DeleteCustomer_Start(r, c) /\ Counted
        \/ CreateCustomer_Create(r) /\ Quiet
        \/ CreateCustomer_Increment(r) /\ Quiet
        \/ EnrollMember_FindCustomer(r) /\ Quiet
        \/ EnrollMember_FindExisting(r) /\ Quiet
        \/ EnrollMember_Create(r) /\ Quiet
        \/ EnrollMember_Increment(r) /\ Quiet
        \/ DeleteCustomer_Delete(r) /\ Quiet
        \/ \E s \in SchemeIds : DeleteCustomer_Decrement(r, s) /\ Quiet
        \/ Fail(r) /\ Quiet

SpecEnroll == Init /\ [][NextEnroll]_vars

\* Enrollment routes, one request at a time, each run to its response.
NextSeqEnroll ==
    \E r \in Reqs :
        \/ \E s \in SchemeIds : AllIdle /\ CreateCustomer_Start(r, s, 1, 1) /\ History2
        \/ \E c \in CustIds, s \in SchemeIds :
               AllIdle /\ EnrollMember_Start(r, c, s) /\ History2
        \/ \E c \in CustIds : AllIdle /\ DeleteCustomer_Start(r, c) /\ History2
        \/ CreateCustomer_Create(r) /\ History2
        \/ CreateCustomer_Increment(r) /\ History2
        \/ EnrollMember_FindCustomer(r) /\ History2
        \/ EnrollMember_FindExisting(r) /\ History2
        \/ EnrollMember_Create(r) /\ History2
        \/ EnrollMember_Increment(r) /\ History2
        \/ DeleteCustomer_Delete(r) /\ History2
        \/ \E s \in SchemeIds : DeleteCustomer_Decrement(r, s) /\ History2

SpecSeqEnroll == Init /\ [][NextSeqEnroll]_vars

\* The same routes on a migrated store.
SpecMigrated == InitMigrated /\ [][NextSeqEnroll]_vars

\* the ledger runs follow the balance of one customer
NoCustomerYet == nextId.cust = 0 /\ \A q \in Reqs : req[q].op # "CreateCustomer"

\* Customer creation and the collection routes, one request at a time.
NextSeqLedger ==
    \E r \in Reqs :
        \/ \E a \in 1..MaxAmount, d \in 1..MaxDuration :
               AllIdle /\ NoCustomerYet /\ CreateCustomer_Start(r, 1, a, d) /\ History
        \/ \E c \in CustIds, a \in Amounts, b \in Amounts :
               AllIdle /\ RecordCollection_Start(r, c, a, b) /\ History
        \/ \E k \in CollIds, ha \in BOOLEAN, hb \in BOOLEAN, a \in Amounts, b \in Amounts :
               /\ AllIdle
               /\ ~ha => a = 0
               /\ ~hb => b = 0
               /\ UpdateCollection_Start(r, k, ha, a, hb, b)
               /\ History
        \/ \E k \in CollIds : AllIdle /\ DeleteCollection_Start(r, k) /\ History
        \/ CreateCustomer_Create(r) /\ History
        \/ CreateCustomer_Increment(r) /\ History
        \/ RecordCollection_Create(r) /\ History
        \/ RecordCollection_UpdateBalance(r) /\ History
        \/ UpdateCollection_Update(r) /\ History
        \/ UpdateCollection_UpdateBalance(r) /\ History
        \/ DeleteCollection_Delete(r) /\ History
        \/ DeleteCollection_Restore(r) /\ History

SpecSeqLedger == Init /\ [][NextSeqLedger]_vars

\* Customer creation and collection recording; requests overlap, calls may fail.
NextRecord ==
    \E r \in Reqs :
        \/ \E a \in 1..MaxAmount, d \in 1..MaxDuration :
               NoCustomerYet /\ CreateCustomer_Start(r, 1, a, d) /\ Quiet
        \/ \E c \in CustIds, a \in Amounts, b \in Amounts :
               RecordCollection_Start(r, c, a, b) /\ Quiet
        \/ CreateCustomer_Create(r) /\ Quiet
        \/ CreateCustomer_Increment(r) /\ Quiet
        \/ RecordCollection_Create(r) /\ Quiet
        \/ RecordCollection_UpdateBalance(r) /\ Quiet
        \/ Fail(r) /\ Quiet

SpecRecord == Init /\ [][NextRecord]_vars

\* what the body of a passbook update may carry: 0 and "" stand for a field
\* that is not in the body
MonthPatch == {0} \cup Months
TypePatch  == {""} \cup EntryType

\* One customer with its collections and passbook, and its deletion; one request
\* at a time.
NextSeqPassbook ==
    \E r \in Reqs :
        \/ AllIdle /\ NoCustomerYet /\ CreateCustomer_Start(r, 1, 1, 1) /\ History
        \/ \E c \in CustIds : AllIdle /\ RecordCollection_Start(r, c, 1, 1) /\ History
        \/ \E c \in CustIds, m \in Months, ty \in EntryType :
               AllIdle /\ CreatePassbookEntry_Start(r, c, m, ty) /\ History
        \/ \E e \in EntryIds, m \in MonthPatch, ty \in TypePatch :
               AllIdle /\ UpdatePassbookEntry_Start(r, e, m, ty) /\ History
        \/ \E e \in EntryIds : AllIdle /\ DeletePassbookEntry_Start(r, e) /\ History
        \/ \E c \in CustIds : AllIdle /\ DeleteCustomer_Start(r, c) /\ History
        \/ CreateCustomer_Create(r) /\ History
        \/ CreateCustomer_Increment(r) /\ History
        \/ RecordCollection_Create(r) /\ History
        \/ RecordCollection_UpdateBalance(r) /\ History
        \/ CreatePassbookEntry_FindExisting(r) /\ History
        \/ CreatePassbookEntry_Create(r) /\ History
        \/ UpdatePassbookEntry_Update(r) /\ History
        \/ DeletePassbookEntry_Delete(r) /\ History
        \/ DeleteCustomer_Delete(r) /\ History
        \/ \E s \in SchemeIds : DeleteCustomer_Decrement(r, s) /\ History

SpecSeqPassbook == Init /\ [][NextSeqPassbook]_vars

\* The passbook routes of one customer; requests overlap, calls may fail.
NextPassbook ==
    \E r \in Reqs :
        \/ NoCustomerYet /\ CreateCustomer_Start(r, 1, 1, 1) /\ Quiet
        \/ \E c \in CustIds, m \in Months, ty \in EntryType :
               CreatePassbookEntry_Start(r, c, m, ty) /\ Quiet
        \/ \E e \in EntryIds, m \in MonthPatch, ty \in TypePatch :
               UpdatePassbookEntry_Start(r, e, m, ty) /\ Quiet
        \/ \E e \in EntryIds : DeletePassbookEntry_Start(r, e) /\ Quiet
        \/ CreateCustomer_Create(r) /\ Quiet
        \/ CreateCustomer_Increment(r) /\ Quiet
        \/ CreatePassbookEntry_FindExisting(r) /\ Quiet
        \/ CreatePassbookEntry_Create(r) /\ Quiet
        \/ UpdatePassbookEntry_Update(r) /\ Quiet
        \/ DeletePassbookEntry_Delete(r) /\ Quiet
        \/ Fail(r) /\ Quiet

SpecPassbook == Init /\ [][NextPassbook]_vars

\* what the body of an auction update may carry as status: "" stands for none
StatusPatch == {""} \cup AuctionStatus

\* Creation of one customer and the auction routes, one request at a time.
NextSeqAuction ==
    \E r \in Reqs :
        \/ \E s \in SchemeRefs :
               AllIdle /\ NoCustomerYet /\ CreateCustomer_Start(r, s, 1, 1) /\ History
        \/ \E s \in SchemeRefs, hw \in BOOLEAN, w \in WinnerRefs, st \in AuctionStatus :
               /\ AllIdle
               /\ ~hw => w = 0
               /\ RecordAuction_Start(r, s, hw, w, st)
               /\ History
        \/ \E a \in AuctionIds, hw \in BOOLEAN, w \in WinnerRefs, st \in StatusPatch :
               /\ AllIdle
               /\ ~hw => w = 0
               /\ UpdateAuction_Start(r, a, hw, w, st)
               /\ History
        \/ \E a \in AuctionIds : AllIdle /\ DeleteAuction_Start(r, a) /\ History
        \/ CreateCustomer_Create(r) /\ History
        \/ CreateCustomer_Increment(r) /\ History
        \/ Auction_FindWinner(r) /\ History
        \/ Auction_FindMembership(r) /\ History
        \/ RecordAuction_Create(r) /\ History
        \/ UpdateAuction_Update(r) /\ History
        \/ DeleteAuction_Delete(r) /\ History

SpecSeqAuction == Init /\ [][NextSeqAuction]_vars

\* Creation of customers in scheme 1, their deletion and the update of scheme 1
\* (or of a scheme that does not exist), one request at a time; no history is kept.
NextSeqScheme ==
    \E r \in Reqs :
        \/ AllIdle /\ CreateCustomer_Start(r, 1, 1, 1) /\ Quiet
        \/ \E c \in CustIds : AllIdle /\ DeleteCustomer_Start(r, c) /\ Quiet
        \/ \E s \in {1, NumSchemes + 1}, n \in MembersPatch, he \in BOOLEAN, e \in EnrolledPatch :
               /\ AllIdle
               /\ ~he => e = 0
               /\ UpdateScheme_Start(r, s, n, he, e)
               /\ Quiet
        \/ CreateCustomer_Create(r) /\ Quiet
        \/ CreateCustomer_Increment(r) /\ Quiet
        \/ DeleteCustomer_Delete(r) /\ Quiet
        \/ \E s \in SchemeIds : DeleteCustomer_Decrement(r, s) /\ Quiet
        \/ UpdateScheme_Update(r) /\ Quiet

SpecSeqScheme == Init /\ [][NextSeqScheme]_vars

\* Requests under the timeout middleware; the handlers take any time.
NextTimeout ==
    \E r \in Reqs :
        \/ \E complete \in BOOLEAN, limited \in BOOLEAN : Timeout_Arrive(r, complete, limited)
        \/ Timeout_BodyReceived(r)
        \/ \E status \in HandlerStatus, exits \in BOOLEAN :
               Timeout_HandlerResponds(r, status, exits)
        \/ Timeout_SocketIdle(r)
        \/ Timeout_Done(r)

SpecTimeout == Init /\ [][NextTimeout]_vars

\* Creation and deletion of customers and the customer list, one request at a
\* time; no history is kept.
NextSeqList ==
    \E r \in Reqs :
        \/ \E s \in SchemeIds : AllIdle /\ CreateCustomer_Start(r, s, 1, 1) /\ Quiet
        \/ \E c \in CustIds : AllIdle /\ DeleteCustomer_Start(r, c) /\ Quiet
        \/ \E page \in QueryStrings, limit \in QueryStrings :
               AllIdle /\ ListCustomers_Start(r, page, limit) /\ Quiet
        \/ CreateCustomer_Create(r) /\ Quiet
        \/ CreateCustomer_Increment(r) /\ Quiet
        \/ DeleteCustomer_Delete(r) /\ Quiet
        \/ \E s \in SchemeIds : DeleteCustomer_Decrement(r, s) /\ Quiet
        \/ ListCustomers_FindMany(r) /\ Quiet

SpecSeqList == Init /\ [][NextSeqList]_vars

\* One customer, its collections on any dates and the revenue report, one request
\* at a time; no history is kept.
NextSeqReport ==
    \E r \in Reqs :
        \/ AllIdle /\ NoCustomerYet /\ CreateCustomer_Start(r, 1, 1, 1) /\ Quiet
        \/ \E c \in CustIds, a \in 1..MaxAmount, date \in Ticks :
               AllIdle /\ RecordCollectionAt_Start(r, c, a, 0, date) /\ Quiet
        \/ \E startDate \in Days, endDate \in Days :
               AllIdle /\ RevenueReport(r, startDate, endDate) /\ Quiet
        \/ CreateCustomer_Create(r) /\ Quiet
        \/ CreateCustomer_Increment(r) /\ Quiet
        \/ RecordCollection_Create(r) /\ Quiet
        \/ RecordCollection_UpdateBalance(r) /\ Quiet

SpecSeqReport == InitAnywhere /\ [][NextSeqReport]_vars

\* One customer, its collections and its update, one request at a time; no
\* history is kept.
NextSeqAccount ==
    \E r \in Reqs :
        \/ \E a \in 1..MaxAmount, d \in 1..MaxDuration :
               AllIdle /\ NoCustomerYet /\ CreateCustomer_Start(r, 1, a, d) /\ Quiet
        \/ \E c \in CustIds, a \in Amounts, b \in Amounts :
               AllIdle /\ RecordCollection_Start(r, c, a, b) /\ Quiet
        \/ \E c \in CustIds, a \in AmountPatch, d \in DurationPatch,
               hb \in BOOLEAN, b \in Amounts :
               /\ AllIdle
               /\ ~hb => b = 0
               /\ UpdateCustomer_Start(r, c, a, d, hb, b)
               /\ Quiet
        \/ CreateCustomer_Create(r) /\ Quiet
        \/ CreateCustomer_Increment(r) /\ Quiet
        \/ RecordCollection_Create(r) /\ Quiet
        \/ RecordCollection_UpdateBalance(r) /\ Quiet
        \/ UpdateCustomer_Update(r) /\ Quiet

SpecSeqAccount == Init /\ [][NextSeqAccount]_vars

\* One customer, the recording and the deletion of its collections; requests
\* overlap, and the history keeps the rows as they were when the first of the
\* requests that overlap arrived.
NextLedgerRace ==
    \E r \in Reqs :
        \/ NoCustomerYet /\ CreateCustomer_Start(r, 1, 1, 1) /\ Before
        \/ \E c \in CustIds, a \in Amounts, b \in Amounts :
               RecordCollection_Start(r, c, a, b) /\ Before
        \/ \E k \in CollIds : DeleteCollection_Start(r, k) /\ Before
        \/ CreateCustomer_Create(r) /\ Before
        \/ CreateCustomer_Increment(r) /\ Before
        \/ RecordCollection_Create(r) /\ Before
        \/ RecordCollection_UpdateBalance(r) /\ Before
        \/ DeleteCollection_Delete(r) /\ Before
        \/ DeleteCollection_Restore(r) /\ Before

SpecLedgerRace == Init /\ [][NextLedgerRace]_vars

\* only deletions are in flight
OnlyDeletions == \A q \in Reqs : req[q].op \in {"none", "DeleteCollection", "DeleteCustomer"}

\* Customers and collections are made one request at a time; the deletions of
\* collections and of customers overlap one another. No history is kept.
NextDoubleDelete ==
    \E r \in Reqs :
        \/ \E s \in SchemeIds : AllIdle /\ CreateCustomer_Start(r, s, 1, 1) /\ Quiet
        \/ \E c \in CustIds, a \in 1..MaxAmount :
               AllIdle /\ RecordCollection_Start(r, c, a, 0) /\ Quiet
        \/ \E k \in CollIds : OnlyDeletions /\ DeleteCollection_Start(r, k) /\ Quiet
        \/ \E c \in CustIds : OnlyDeletions /\ DeleteCustomer_Start(r, c) /\ Quiet
        \/ CreateCustomer_Create(r) /\ Quiet
        \/ CreateCustomer_Increment(r) /\ Quiet
        \/ RecordCollection_Create(r) /\ Quiet
        \/ RecordCollection_UpdateBalance(r) /\ Quiet
        \/ DeleteCollection_Delete(r) /\ Quiet
        \/ DeleteCollection_Restore(r) /\ Quiet
        \/ DeleteCustomer_Delete(r) /\ Quiet
        \/ \E s \in SchemeIds : DeleteCustomer_Decrement(r, s) /\ Quiet

SpecDoubleDelete == Init /\ [][NextDoubleDelete]_vars

\* no customer is being created
NoCreation == \A q \in Reqs : req[q].op # "CreateCustomer"

\* Customers are created in scheme 1, one request at a time; their deletion and
\* the recording of auctions of either scheme, with a winningMemberId or without,
\* and their update with a winningMemberId overlap. No history is kept.
NextAuctionRace ==
    \E r \in Reqs :
        \/ AllIdle /\ CreateCustomer_Start(r, 1, 1, 1) /\ Quiet
        \/ \E c \in CustIds : NoCreation /\ DeleteCustomer_Start(r, c) /\ Quiet
        \/ \E s \in SchemeIds, w \in WinnerRefs :
               NoCreation /\ RecordAuction_Start(r, s, w # 0, w, "SCHEDULED") /\ Quiet
        \/ \E a \in AuctionIds, w \in CustIds :
               NoCreation /\ UpdateAuction_Start(r, a, TRUE, w, "") /\ Quiet
        \/ CreateCustomer_Create(r) /\ Quiet
        \/ CreateCustomer_Increment(r) /\ Quiet
        \/ DeleteCustomer_Delete(r) /\ Quiet
        \/ \E s \in SchemeIds : DeleteCustomer_Decrement(r, s) /\ Quiet
        \/ Auction_FindWinner(r) /\ Quiet
        \/ Auction_FindMembership(r) /\ Quiet
        \/ RecordAuction_Create(r) /\ Quiet
        \/ UpdateAuction_Update(r) /\ Quiet

SpecAuctionRace == Init /\ [][NextAuctionRace]_vars

\* ---------------------------------------------------------------- properties
EnrollOps == {"CreateCustomer", "EnrollMember"}

\* C1: overlapping Enroll requests never overbook a scheme: once every request is
\* answered, no scheme has more members enrolled, or more enrollment rows, than
\* it has places (of N+1 overlapping Enrolls for N free places one is refused).
C1_NoOverbooking ==
    AllIdle => \A s \in SchemeIds :
        membersEnrolled[s] <= numberOfMembers[s] /\ RowsIn(s) <= numberOfMembers[s]

\* C2: in every state a request can observe, and in every state a failed request
\* leaves, membersEnrolled of a scheme is the number of its enrollment rows.
C2_CounterIsRowCount ==
    \A s \in SchemeIds : membersEnrolled[s] = RowsIn(s)

\* C3: after any sequence of completed Enroll and Unenroll requests, each run to
\* its response before the next, membersEnrolled <= numberOfMembers.
C3_WithinCapacity ==
    AllIdle => \A s \in SchemeIds : membersEnrolled[s] <= numberOfMembers[s]

\* a scheme is at its capacity, an Enroll has just been refused for it, and a
\* customer has been deleted before
C3_Witness ==
    /\ AllIdle
    /\ resp.msg = "Chit scheme is full"
    /\ membersEnrolled[resp.scheme] = numberOfMembers[resp.scheme]
    /\ Cardinality(DOMAIN customers) < nextId.cust

\* the Enroll answered latest was valid apart from the capacity: its scheme exists
\* and, on the members route, its customer existed and was not enrolled in it
ValidEnroll(h) ==
    /\ h.resp.op \in EnrollOps
    /\ h.resp.scheme \in SchemeIds
    /\ h.resp.op = "EnrollMember" =>
           /\ h.resp.cust \in DOMAIN h.before.balance
           /\ h.before.rows[<<h.resp.cust, h.resp.scheme>>] = 0

\* C8: run one at a time, an Enroll into a scheme with membersEnrolled <
\* numberOfMembers succeeds (201) and raises that membersEnrolled by 1; an Enroll
\* into a scheme with membersEnrolled >= numberOfMembers is answered 400 "full",
\* creates no customer and no enrollment row and leaves every counter as it was.
C8_SequentialEnroll ==
    (AllIdle /\ last.resp.op \in EnrollOps /\ last.resp.scheme \in SchemeIds) =>
        LET s == last.resp.scheme
            b == last.before IN
        IF b.enrolled[s] >= numberOfMembers[s]
        THEN /\ last.resp.status = 400
             /\ last.resp.msg = "Chit scheme is full"
             /\ Snapshot = b
        ELSE ValidEnroll(last) =>
             /\ last.resp.status = 201
             /\ membersEnrolled = [b.enrolled EXCEPT ![s] = @ + 1]

\* customers A and B were enrolled, and C has just been refused: numberOfMembers
\* members are enrolled and stay so
C8_Witness ==
    /\ AllIdle
    /\ last.resp.op = "CreateCustomer"
    /\ last.resp.msg = "Chit scheme is full"
    /\ older.resp.op \in EnrollOps /\ older.resp.status = 201
    /\ older.resp.scheme = last.resp.scheme
    /\ membersEnrolled[last.resp.scheme] = numberOfMembers[last.resp.scheme]
    /\ older.before.enrolled[last.resp.scheme] = numberOfMembers[last.resp.scheme] - 1

\* C9: at most one enrollment row exists per (customer, scheme); an Enroll on the
\* members route that finds its pair enrolled is answered 400, creates no row and
\* leaves membersEnrolled alone, also when Enrolls of the pair overlap (a call
\* that fails because the store is unreachable aside).
C9_SecondEnrollRefused ==
    /\ [](\A c \in CustIds, s \in SchemeIds : RowsFor(c, s) <= 1)
    /\ [][\A r \in Reqs :
            ( /\ req[r].op = "EnrollMember" /\ req'[r].pc = "idle"
              /\ req[r].pc # "increment"
              /\ RowsFor(req[r].cust, req[r].scheme) > 0
              /\ resp'.msg # StoreDown )
            => ( /\ resp'.status = 400
                 /\ customerSchemes' = customerSchemes
                 /\ membersEnrolled' = membersEnrolled )]_vars

\* the Enroll answered before the latest request, and the Unenroll (the deletion
\* of the same customer) that followed it at once
EnrollThenUnenroll ==
    /\ AllIdle
    /\ older.resp.op \in EnrollOps /\ older.resp.status = 201
    /\ last.resp.op = "DeleteCustomer" /\ last.resp.status = 200
    /\ last.resp.cust = older.resp.cust

PaidBy(c) == SumOver([k \in DOMAIN collections |-> collections[k].amountPaid],
                     CollectionsOf(c))

\* C4: RecordCollection(amountPaid, balanceRemaining) and at once DeleteCollection
\* of the record it made leaves the customer's balance as it was before the
\* RecordCollection, whatever amountPaid and balanceRemaining were sent.
C4_RoundTrip ==
    [][( /\ ~AllIdle /\ AllIdle'
         /\ resp'.op = "DeleteCollection" /\ resp'.status = 200
         /\ last.resp.op = "RecordCollection" /\ last.resp.status = 201
         /\ last.resp.coll = resp'.coll )
       => customers'[last.resp.cust].balance = last.before.balance[last.resp.cust]]_vars

\* C5: after any sequence of Enroll, RecordCollection, UpdateCollection and
\* DeleteCollection requests the balance of a customer is amountPerDay x duration
\* less the amountPaid of the collections the customer has.
C5_BalanceIsContractLessPaid ==
    AllIdle => \A c \in DOMAIN customers :
        customers[c].balance =
            customers[c].amountPerDay * customers[c].duration - PaidBy(c)

\* C6: when RecordCollection calls for one customer overlap, every row they made
\* is there, and the balance is the balanceRemaining of the call that wrote the
\* balance last; what the other call wrote is lost.
C6_LastWriterWins ==
    /\ \A k \in 1..nextId.coll : k \in DOMAIN collections
    /\ \A c \in DOMAIN customers :
           LET k == customers[c].lastWrite IN
           k # 0 => /\ k \in CollectionsOf(c)
                    /\ collections[k].applied
                    /\ customers[c].balance = collections[k].balanceRemaining

\* two calls have been answered 201; the one that made its row first wrote the
\* balance last, so the balance is not what the later row says
C6_Witness ==
    /\ AllIdle
    /\ \E c \in DOMAIN customers : \E j \in CollectionsOf(c), k \in CollectionsOf(c) :
           /\ j < k
           /\ collections[j].applied /\ collections[k].applied
           /\ customers[c].lastWrite = j
           /\ collections[j].balanceRemaining # collections[k].balanceRemaining
           /\ customers[c].balance = collections[j].balanceRemaining

\* C7: RecordCollection is all or nothing: no state that another request can
\* observe, or that a failed request leaves, has the new collection row without
\* the balance write of the call that made it.
C7_AllOrNothing ==
    \A k \in DOMAIN collections : collections[k].applied

\* C11: a RecordCollection answered 201 leaves the customer's balance equal to the
\* balanceRemaining the caller sent, whatever the balance was before and whatever
\* amountPaid was sent.
C11_BalanceIsBalanceRemaining ==
    [][\A r \in Reqs :
          (req[r].op = "RecordCollection" /\ req'[r].pc = "idle" /\ resp'.status = 201)
          => /\ customers'[req[r].cust].balance = req[r].bal
             /\ req[r].coll \in DOMAIN collections'
             /\ collections'[req[r].coll].amountPaid = req[r].amt]_vars

\* the latest request recorded a collection whose balanceRemaining is not the
\* balance before less the amountPaid, and the balance is that balanceRemaining
C11_Witness ==
    /\ AllIdle
    /\ last.resp.op = "RecordCollection" /\ last.resp.status = 201
    /\ last.resp.coll \in DOMAIN collections
    /\ LET c == last.resp.cust
           k == last.resp.coll IN
       /\ customers[c].balance = collections[k].balanceRemaining
       /\ customers[c].balance # last.before.balance[c] - collections[k].amountPaid
       /\ customers[c].balance # last.before.balance[c]

\* C12: a DeleteCollection of a collection that exists is answered 200, removes
\* the row and leaves the balance at what it was just before plus the amountPaid
\* of the row; of an id that does not exist it is answered 404 and changes nothing.
C12_DeleteAddsBack ==
    (AllIdle /\ last.resp.op = "DeleteCollection") =>
        LET k == last.resp.coll
            c == last.resp.cust
            b == last.before IN
        IF k \in DOMAIN b.paid
        THEN /\ last.resp.status = 200
             /\ k \notin DOMAIN collections
             /\ DOMAIN collections = DOMAIN b.paid \ {k}
             /\ customers[c].balance = b.balance[c] + b.paid[k]
        ELSE /\ last.resp.status = 404
             /\ Snapshot = b

\* the latest request deleted a collection with an amountPaid above 0
C12_Witness ==
    /\ AllIdle
    /\ last.resp.op = "DeleteCollection" /\ last.resp.status = 200
    /\ last.resp.coll \in DOMAIN last.before.paid
    /\ last.before.paid[last.resp.coll] > 0
    /\ customers[last.resp.cust].balance > last.before.balance[last.resp.cust]

\* C13: an UpdateCollection answered 200 leaves the balance equal to the patch's
\* balanceRemaining if the patch has one and as it was if it has none; of an id
\* that does not exist it is answered 404 and changes nothing.
C13_BalanceOnlyIfPatched ==
    /\ []((AllIdle /\ last.resp.op = "UpdateCollection") =>
            IF last.resp.coll \in DOMAIN last.before.paid
            THEN last.resp.status = 200
            ELSE last.resp.status = 404 /\ Snapshot = last.before)
    /\ [][\A r \in Reqs :
            (req[r].op = "UpdateCollection" /\ req'[r].pc = "idle" /\ resp'.status = 200)
            => customers'[req[r].cust].balance =
                   IF req[r].hasBal THEN req[r].bal ELSE pre.balance[req[r].cust]]_vars

\* the latest request changed the amountPaid of a collection and sent no
\* balanceRemaining: the balance is as before and is not the row's balanceRemaining
C13_Witness ==
    /\ AllIdle
    /\ last.resp.op = "UpdateCollection" /\ last.resp.status = 200
    /\ last.resp.coll \in DOMAIN collections
    /\ LET c == last.resp.cust
           k == last.resp.coll IN
       /\ collections[k].amountPaid # last.before.paid[k]
       /\ collections[k].balanceRemaining # customers[c].balance
       /\ customers[c].balance = last.before.balance[c]

PassbookWrites == {"UpdatePassbookEntry", "DeletePassbookEntry"}

\* C16: an UpdatePassbookEntry or DeletePassbookEntry of an entry whose type is
\* GENERATED is answered 400 and leaves the passbook as it was.
C16_GeneratedReadOnly ==
    (/\ AllIdle
     /\ last.resp.op \in PassbookWrites
     /\ last.resp.more.entry \in DOMAIN last.before.entries
     /\ last.before.entries[last.resp.more.entry].type = "GENERATED")
    => /\ last.resp.status = 400
       /\ passbookEntries = last.before.entries
       /\ Snapshot = last.before

\* an update that would have made a GENERATED entry MANUAL has been refused
C16_Witness ==
    /\ AllIdle
    /\ last.resp.op = "UpdatePassbookEntry"
    /\ last.resp.more.type = "MANUAL"
    /\ last.resp.more.entry \in DOMAIN passbookEntries
    /\ passbookEntries[last.resp.more.entry].type = "GENERATED"
    /\ last.resp.status = 400

\* C17: whatever passbook create, update and delete requests there have been, and
\* however they overlapped, no customer has two MANUAL entries for one month.
C17_OneManualPerMonth ==
    \A c \in CustIds, m \in Months : Cardinality(ManualEntries(c, m)) <= 1

\* C18: a removal of a customer's enrollments (DELETE /customers/:id) while a
\* collection or a passbook entry of the customer exists is answered 400, deletes
\* nothing and leaves every membersEnrolled as it was.
C18_DependentsBlockRemoval ==
    LET c == last.resp.cust
        b == last.before IN
    (/\ AllIdle
     /\ last.resp.op = "DeleteCustomer"
     /\ c \in DOMAIN b.balance
     /\ \/ \E k \in DOMAIN b.payer : b.payer[k] = c
        \/ \E e \in DOMAIN b.entries : b.entries[e].customerId = c)
    => /\ last.resp.status = 400
       /\ Snapshot = b
       /\ CustomerExists(c)
       /\ membersEnrolled = b.enrolled

\* a customer with a passbook entry and no collection was not removed
C18_Witness ==
    /\ AllIdle
    /\ last.resp.op = "DeleteCustomer" /\ last.resp.status = 400
    /\ CollectionsOf(last.resp.cust) = {}
    /\ PassbookOf(last.resp.cust) # {}
    /\ \E s \in SchemeIds : RowsFor(last.resp.cust, s) = 1 /\ membersEnrolled[s] = 1

\* C15: a deletion of a customer that has an enrollment with status COMPLETED is
\* answered 400 and leaves the enrollment rows and every membersEnrolled as they
\* were.
C15_CompletedEnrollmentKept ==
    LET c == last.resp.cust
        b == last.before IN
    (/\ AllIdle
     /\ last.resp.op = "DeleteCustomer"
     /\ c \in DOMAIN b.balance
     /\ \E s \in SchemeIds : b.rows[<<c, s>>] > 0 /\ b.status[<<c, s>>] = "COMPLETED")
    => /\ last.resp.status = 400
       /\ customerSchemes = b.rows
       /\ membersEnrolled = b.enrolled

\* C14: a DeleteAuction of an id that does not exist is answered 404, of an
\* auction whose status is COMPLETED 400, and both leave the auctions as they
\* were; an auction whose status is SCHEDULED or CANCELLED is removed (200).
C14_CompletedAuctionKept ==
    LET a == last.resp.more.auction
        b == last.before IN
    (AllIdle /\ last.resp.op = "DeleteAuction") =>
        IF a \notin DOMAIN b.auctions
        THEN last.resp.status = 404 /\ Snapshot = b
        ELSE IF b.auctions[a].status = "COMPLETED"
        THEN last.resp.status = 400 /\ Snapshot = b
        ELSE /\ last.resp.status = 200
             /\ auctions = Drop(b.auctions, {a})

\* the deletion of a COMPLETED auction has been refused and the auction is there
C14_Witness ==
    /\ AllIdle
    /\ last.resp.op = "DeleteAuction" /\ last.resp.status = 400
    /\ last.resp.more.auction \in DOMAIN auctions
    /\ auctions[last.resp.more.auction].status = "COMPLETED"

\* the winner w had an enrollment in scheme s when the rows were b
EnrolledIn(w, s, b) == w \in CustIds /\ b.rows[<<w, s>>] > 0

\* C19: a RecordAuction for an existing scheme, or an UpdateAuction of an existing
\* auction, whose body has a winningMemberId that is not enrolled in the scheme of
\* the auction is answered 400 and writes nothing; a RecordAuction for an
\* existing scheme without winningMemberId is answered 201.
C19_WinnerMustBeEnrolled ==
    LET h == last.resp
        b == last.before IN
    (/\ AllIdle
     /\ \/ h.op = "RecordAuction" /\ h.scheme \in SchemeIds
        \/ h.op = "UpdateAuction" /\ h.more.auction \in DOMAIN b.auctions)
    => IF h.more.hasWinner /\ ~EnrolledIn(h.more.winner, h.scheme, b)
       THEN h.status = 400 /\ Snapshot = b
       ELSE (h.op = "RecordAuction" /\ ~h.more.hasWinner) => h.status = 201

\* the request was for something that does not exist
NotFoundCase(h) ==
    \/ h.resp.op \in {"CreateCustomer", "EnrollMember", "RecordAuction"}
         /\ h.resp.scheme \notin SchemeIds
    \/ h.resp.op \in {"RecordCollection", "EnrollMember"}
         /\ h.resp.cust \notin DOMAIN h.before.balance

\* C20: a request that names a scheme or a customer that does not exist is
\* answered 404 and changes nothing.
C20_NotFoundIs404 ==
    (AllIdle /\ NotFoundCase(last)) => (last.resp.status = 404 /\ Snapshot = last.before)

\* C21: in every state, whatever requests have been served, UpdateScheme with any
\* body among them, every scheme has membersEnrolled <= numberOfMembers.
C21_EnrolledWithinCapacity ==
    \A s \in SchemeIds : membersEnrolled[s] <= numberOfMembers[s]

RECURSIVE Numeral(_)
Numeral(n) == IF n < 10 THEN <<n>> ELSE Numeral(n \div 10) \o <<n % 10>>

\* what a query carries to ask for n: its numeral, or nothing if n is the default
QueryFor(n, default) == {Numeral(n)} \cup (IF n = default THEN {<<>>} ELSE {})

\* the list request answered latest asked for page p with limit L
AskedFor(p, L) ==
    /\ AllIdle /\ resp.op = "ListCustomers"
    /\ resp.more.page \in QueryFor(p, 1)
    /\ resp.more.limit \in QueryFor(L, 10)

\* the pages and limits a request of the model can name
Queries == 1..(10 * ParseInt([i \in 1..MaxDigits |-> MaxDigit]))

\* C23: a list request for page p >= 1 with limit L in 1..100, served with no
\* other request in between, over `total` rows returns max(0, min(L, total -
\* (p-1)*L)) items, the newest first from row (p-1)*L on, and reports
\* pagination.total = total and pagination.pages = ceil(total / L).
C23_Pagination ==
    \A p \in Queries, L \in Queries :
        (AskedFor(p, L) /\ L <= 100) =>
            LET total == Cardinality(DOMAIN customers)
                rest == total - (p - 1) * L
                n == IF rest < 0 THEN 0 ELSE IF rest < L THEN rest ELSE L
                d == resp.more
                all == NewestFirst(DOMAIN customers) IN
            /\ resp.status = 200
            /\ Len(d.items) = n
            /\ \A i \in 1..n : d.items[i] = all[(p - 1) * L + i]
            /\ d.total = total
            /\ d.pages * L >= total /\ (d.pages - 1) * L < total

\* page 2 with limit 2 of three customers has been served: one item, two pages
C23_Witness ==
    /\ AskedFor(2, 2)
    /\ Cardinality(DOMAIN customers) = 3
    /\ Len(resp.more.items) = 1
    /\ resp.more.pages = 2

\* the default limit of 10 has been applied to three customers: one page of three
C23_DefaultLimit ==
    /\ AskedFor(1, 10)
    /\ Len(resp.more.items) = 3

\* the collections of a day
CollectedOn(day) == {k \in DOMAIN collections : DayKey(collections[k].date) = day}

\* C24: the revenue report by day over the days startDate..endDate has one bucket
\* for each of these days that has a collection and none for any other day; the
\* totalCollections of a bucket is the number of the collections of its day and
\* its totalRevenue the sum of their amountPaid.
C24_OneBucketPerDay ==
    (AllIdle /\ resp.op = "RevenueReport") =>
        LET data == resp.more.revenueData
            window == resp.more.startDate..resp.more.endDate IN
        /\ DOMAIN data = {day \in window : CollectedOn(day) # {}}
        /\ \A day \in DOMAIN data :
               /\ data[day].totalCollections = Cardinality(CollectedOn(day))
               /\ data[day].totalRevenue =
                      SumOver([k \in DOMAIN collections |-> collections[k].amountPaid],
                              CollectedOn(day))

\* C26: an UpdateCustomer that changes amountPerDay or duration and is answered
\* 200 leaves the balance at the new amountPerDay x the new duration less the
\* amount paid so far, which is the old amountPerDay x the old duration less the
\* old balance.
C26_BalanceRecalculated ==
    [][\A r \in Reqs :
          ( /\ req[r].op = "UpdateCustomer" /\ req'[r].pc = "idle"
            /\ resp'.status = 200
            /\ req[r].amt # 0 \/ req[r].dur # 0 )
          => LET c == req[r].cust
                 paidSoFar == customers[c].amountPerDay * customers[c].duration
                                  - customers[c].balance IN
             customers'[c].balance =
                 customers'[c].amountPerDay * customers'[c].duration - paidSoFar]_vars

\* C25: an auction that has had the status COMPLETED is not removed afterwards,
\* whatever UpdateAuction and DeleteAuction requests follow: no step removes an
\* auction that was COMPLETED when the request answered last arrived.
C25_CompletedAuctionStays ==
    [][\A a \in DOMAIN auctions :
          (a \in DOMAIN last.before.auctions
              /\ last.before.auctions[a].status = "COMPLETED")
          => a \in DOMAIN auctions']_vars

\* C27: when a DeleteCollection of the collection k and a RecordCollection that
\* made the collection j, both of one customer, have overlapped and both are
\* done, the balance is that of one of the two serial orders: the
\* balanceRemaining of j (the deletion first), or that plus the amountPaid of k
\* (the recording first).
C27_SerialOutcome ==
    LET b == pre IN
    AllIdle =>
        \A k \in DOMAIN b.paid \ DOMAIN collections :
            \A j \in DOMAIN collections \ DOMAIN b.paid :
                (collections[j].customerId = b.payer[k] /\ collections[j].applied)
                => customers[b.payer[k]].balance \in
                       {collections[j].balanceRemaining,
                        collections[j].balanceRemaining + b.paid[k]}

\* C28: however Enroll and customer deletion requests overlap, no scheme ever has
\* a negative membersEnrolled.
C28_NeverNegative ==
    \A s \in SchemeIds : membersEnrolled[s] >= 0

\* C29: of the DeleteCollection requests for one collection that overlap, one at
\* most adds the amountPaid back: a request comes to its balance write only by
\* the step in which it removed the row itself, a row removed never comes back,
\* and a request writes the balance once. Likewise a customer deletion comes to
\* its decrements only by the step in which it removed the customer itself, so
\* that after overlapping deletions membersEnrolled of every scheme is still the
\* number of its enrollment rows.
C29_AtMostOnce ==
    /\ [][\A r \in Reqs :
            /\ (req'[r].op = "DeleteCollection" /\ req'[r].pc = "restore"
                    /\ req[r].pc # "restore")
               => (req'[r].coll \in DOMAIN collections
                      /\ req'[r].coll \notin DOMAIN collections')
            /\ (req[r].op = "DeleteCollection" /\ req[r].pc = "restore"
                    /\ req'[r] # req[r])
               => req'[r].pc = "idle"
            /\ (req'[r].op = "DeleteCustomer" /\ req'[r].pc = "decrement"
                    /\ req[r].pc = "delete")
               => (req'[r].cust \in DOMAIN customers
                      /\ req'[r].cust \notin DOMAIN customers')]_vars
    /\ [][\A k \in CollIds :
              (k <= nextId.coll /\ k \notin DOMAIN collections)
              => k \notin DOMAIN collections']_vars
    /\ [][\A c \in CustIds :
              (c <= nextId.cust /\ c \notin DOMAIN customers)
              => c \notin DOMAIN customers']_vars
    /\ [][(customers' # customers /\ DOMAIN customers' = DOMAIN customers
              /\ OnlyDeletions)
           => \E r \in Reqs : req[r].pc = "restore" /\ req'[r].pc = "idle"]_vars
    /\ [](AllIdle => \A s \in SchemeIds : membersEnrolled[s] = RowsIn(s))

\* two deletions of one collection have overlapped: one has removed the row and
\* is about to add the amountPaid back, the other has been answered 500
C29_Witness ==
    /\ resp.op = "DeleteCollection" /\ resp.status = 500
    /\ \E r \in Reqs :
           /\ req[r].op = "DeleteCollection" /\ req[r].pc = "restore"
           /\ req[r].coll = resp.coll /\ req[r].amt > 0

\* two deletions of one customer have overlapped: one has removed the customer
\* and is about to decrement, the other has been answered 500
C29_WitnessCustomer ==
    /\ resp.op = "DeleteCustomer" /\ resp.status = 500
    /\ \E r \in Reqs :
           /\ req[r].op = "DeleteCustomer" /\ req[r].pc = "decrement"
           /\ req[r].cust = resp.cust

\* C30: every auction that has a winningMemberId has a customer_schemes row that
\* enrolls that customer in the scheme of the auction, in every state, requests
\* overlapping or not; and no step changes the chitSchemeId of an auction.
C30_WinnerIsEnrolled ==
    /\ [](\A a \in DOMAIN auctions :
             auctions[a].winningMemberId # 0
             => IsMember(auctions[a].winningMemberId, auctions[a].chitSchemeId))
    /\ [][\A a \in DOMAIN auctions \cap DOMAIN auctions' :
              auctions'[a].chitSchemeId = auctions[a].chitSchemeId]_vars

\* an auction of scheme 1 is won by a customer enrolled in scheme 1, and the
\* update that named a customer of scheme 1 as the winner of an auction of the
\* other scheme has been refused
C30_Witness ==
    \E a \in DOMAIN auctions, b \in DOMAIN auctions :
        /\ auctions[a].winningMemberId # 0
        /\ IsMember(auctions[a].winningMemberId, auctions[a].chitSchemeId)
        /\ auctions[b].chitSchemeId # auctions[a].chitSchemeId
        /\ auctions[b].winningMemberId = 0
        /\ resp.op = "UpdateAuction" /\ resp.status = 400
        /\ resp.more.auction = b /\ CustomerExists(resp.more.winner)

\* the winner of an auction has been deleted while an update of that auction
\* that names them as the winner was past its checks: the update is answered 500
C30_WitnessDeleted ==
    /\ resp.op = "UpdateAuction" /\ resp.status = 500
    /\ resp.more.auction \in DOMAIN auctions
    /\ auctions[resp.more.auction].winningMemberId = 0

====
